---- MODULE Spec2Model ----
(***************************************************************************)
(* Model of src/ingest.py: RepoIngestor (parse_github_url, clone_repo,     *)
(* run_gitingest, repo_index_exists, delete_repo_index, ingest_repo) and   *)
(* the file system it acts on (indexes/, my_repos/).                       *)
(*                                                                         *)
(* A Python string is a sequence of TLA+ strings.  Text that the program   *)
(* inspects character by character (inputs, paths, tool output) is written *)
(* one character per element; a message literal of the source is a single  *)
(* element.                                                                *)
(***************************************************************************)
EXTENDS Integers, Sequences, FiniteSets, TLC

\* ------------------------------------------------------------------------
\* Bounds of the pure-function specification (SpecParse)
\* ------------------------------------------------------------------------
MaxOwnerLen == 1
MaxRepoLen == 5

\* ------------------------------------------------------------------------
\* String helpers
\* ------------------------------------------------------------------------
S_https == <<"h", "t", "t", "p", "s", ":", "/", "/">>
S_http == <<"h", "t", "t", "p", ":", "/", "/">>
S_git_at == <<"g", "i", "t", "@">>
S_ssh == <<"s", "s", "h", ":", "/", "/">>
S_github_com == <<"g", "i", "t", "h", "u", "b", ".", "c", "o", "m">>
S_dot_git == <<".", "g", "i", "t">>
S_my_repos == <<"m", "y", "_", "r", "e", "p", "o", "s">>
S_Local == <<"L", "o", "c", "a", "l">>

\* Python's None
None == <<"None">>

\* characters removed by str.strip()
Whitespace == {" ", "\t", "\n", "\r"}

StartsWith(s, p) == Len(s) >= Len(p) /\ SubSeq(s, 1, Len(p)) = p

EndsWith(s, p) == Len(s) >= Len(p) /\ SubSeq(s, Len(s) - Len(p) + 1, Len(s)) = p

Contains(s, p) == \E i \in 1..(Len(s) - Len(p) + 1) : SubSeq(s, i, i + Len(p) - 1) = p

\* str.strip(chars): drop the longest prefix and suffix made of chars
StripChars(s, chars) ==
    LET keep == {i \in 1..Len(s) : s[i] \notin chars}
    IN  IF keep = {} THEN <<>>
        ELSE LET a == CHOOSE i \in keep : \A j \in keep : i <= j
                 b == CHOOSE i \in keep : \A j \in keep : i >= j
             IN  SubSeq(s, a, b)

Strip(s) == StripChars(s, Whitespace)

\* ------------------------------------------------------------------------
\* parse_github_url: re.search of
\*   github\.com[:/](?P<owner>[^/]+)/(?P<repo>[^/]+?)(?:\.git)?$
\* ------------------------------------------------------------------------

\* what may follow the lazy repo group: nothing or ".git", and `$` matches at
\* the end of the string or just before a final line feed
RepoTails_no_suffix == {<<>>, <<"\n">>}

RepoTails == {<<>>, S_dot_git, <<"\n">>, S_dot_git \o <<"\n">>}

\* lengths k for which r[1..k] can be the repo group (no '/', allowed tail)
RepoLens(r) ==
    {k \in 1..Len(r) : /\ \A j \in 1..k : r[j] # "/"
                       /\ SubSeq(r, k + 1, Len(r)) \in RepoTails}

\* index of the first '/' of s at or after position o, 0 when there is none
FirstSlash(s, o) ==
    LET sl == {e \in o..Len(s) : s[e] = "/"}
    IN  IF sl = {} THEN 0 ELSE CHOOSE e \in sl : \A f \in sl : e <= f

\* positions at which the pattern matches
MatchStarts(s) ==
    {p \in 1..Len(s) :
        /\ p + 10 <= Len(s)
        /\ SubSeq(s, p, p + 9) = S_github_com
        /\ s[p + 10] \in {":", "/"}
        /\ LET e == FirstSlash(s, p + 11)
           IN  /\ e > p + 11
               /\ RepoLens(SubSeq(s, e + 1, Len(s))) # {}}

\* the leftmost match; owner is the whole run up to the next '/', repo is the
\* shortest admissible prefix of the rest (the group is lazy).
\* ok = FALSE stands for `raise ValueError`.
parse_github_url(url) ==
    IF MatchStarts(url) = {}
    THEN [ok |-> FALSE, owner |-> None, repo |-> None]
    ELSE LET ms == MatchStarts(url)
             p == CHOOSE x \in ms : \A y \in ms : x <= y
             e == FirstSlash(url, p + 11)
             r == SubSeq(url, e + 1, Len(url))
             ks == RepoLens(r)
             k == CHOOSE x \in ks : \A y \in ks : x <= y
         IN  [ok |-> TRUE, owner |-> SubSeq(url, p + 11, e - 1), repo |-> SubSeq(r, 1, k)]

\* ------------------------------------------------------------------------
\* _is_probable_git_url, _normalize_local_path, pathlib
\* ------------------------------------------------------------------------
is_probable_git_url(s0) ==
    LET s == Strip(s0)
    IN  \/ StartsWith(s, S_https)
        \/ StartsWith(s, S_http)
        \/ StartsWith(s, S_git_at)
        \/ StartsWith(s, S_ssh)
        \/ Contains(s, S_github_com)

\* str(Path(p)): trailing separators are dropped, the empty path is "."
RECURSIVE PathStr(_)
PathStr(p) ==
    IF p = <<>> THEN <<".">>
    ELSE IF Len(p) > 1 /\ p[Len(p)] = "/" THEN PathStr(SubSeq(p, 1, Len(p) - 1))
    ELSE p

\* the inputs of the model contain neither '~' nor '$', on which
\* os.path.expanduser and os.path.expandvars are the identity
normalize_local_path(s) ==
    PathStr(StripChars(StripChars(Strip(s), {"\""}), {"'"}))

\* the process's working directory
Cwd == <<"/", "w">>

\* Path.resolve() of a path without symbolic links or dot segments
Resolve(p) ==
    IF p[1] = "/" THEN p
    ELSE IF p = <<".">> THEN Cwd
    ELSE Cwd \o <<"/">> \o p

\* Path.name: the final path segment
PathName(p) ==
    LET sl == {i \in 1..Len(p) : p[i] = "/"}
    IN  IF sl = {} THEN p
        ELSE LET l == CHOOSE i \in sl : \A j \in sl : i >= j
             IN  SubSeq(p, l + 1, Len(p))

\* str(Path("my_repos") / owner / repo)
RepoPath(owner, repo) == S_my_repos \o <<"/">> \o owner \o <<"/">> \o repo

\* ------------------------------------------------------------------------
\* Inputs and environment
\* ------------------------------------------------------------------------
Procs == {1, 2}

GithubUrl(owner, repo) == S_https \o S_github_com \o <<"/">> \o owner \o <<"/">> \o repo

\* values of repo_input handed to ingest_repo
RemoteInputs ==
    { GithubUrl(<<"a">>, <<"r">>),
      GithubUrl(<<"b">>, <<"r">>) \o S_dot_git,
      S_git_at \o S_github_com \o <<":", "a", "/", "q">> \o S_dot_git,
      <<" ">> \o GithubUrl(<<"a">>, <<"r">>) \o <<"\n">>,
      S_https \o <<"x">>,
      S_github_com \o <<"/", "a", "/", "r">> }

LocalInputs ==
    { <<"/", "d", "/", "r">>,
      <<"'", "/", "d", "/", "q", "/", "'">>,
      <<"/", "d", "/", "x">> }

BlankInputs == { <<>>, <<" ">>, <<" ", "\t", "\n">> }

Inputs == RemoteInputs \cup LocalInputs \cup BlankInputs

\* inputs of two requests for the same repository name
SameRepoInputs == { GithubUrl(<<"a">>, <<"r">>), GithubUrl(<<"b">>, <<"r">>) \o S_dot_git }

\* github_token of the RepoIngestor (the route and the CLI turn "" into None)
Tokens == { None, <<"t", "o", "k">> }

\* directories outside my_repos/ and indexes/: two repositories on disk, and
\* possibly a relative directory whose name reads like a remote reference
LocalRepos == { <<"/", "d", "/", "r">>, <<"/", "d", "/", "q">> }

UrlLikeDir == S_github_com \o <<"/", "a", "/", "r">>

\* repository names the inputs derive
RepoNames == { <<"r">>, <<"q">> }

Owners == { <<"a">>, <<"b">>, S_Local }

Artifacts == { "repo.index", "chunks.json", "graph.pkl" }

\* standard-error texts of a failing gitingest
Stderrs == { <<"auth failed">>, <<" ", "auth failed", "\n", "\n">> }

\* str(e) of an exception raised inside run_gitingest (timeout, missing tool)
ToolExceptions == { <<"Command '['gitingest', ...]' timed out after 300 seconds">> }

AbsentDir == [exists |-> FALSE, files |-> {}]

NoRepoDir == [exists |-> FALSE, creator |-> 0, marker |-> None]

VARIABLES
    dirs,         \* user directories that exist (os.path.isdir)
    output_dir,   \* whether gitingest_outputs/ exists
    indexes,      \* indexes/{repo}/ : [exists, files]
    my_repos,     \* my_repos/{owner}/{repo}/ : [exists, creator, marker]
    inv,          \* per invocation of ingest_repo: its locals and its trace
    p_in,         \* a direct call of parse_github_url: the url's owner, repo, suffix
    p_out         \* its return value

vars == <<dirs, output_dir, indexes, my_repos, inv, p_in, p_out>>

fsvars == <<dirs, output_dir, indexes, my_repos>>

parsevars == <<p_in, p_out>>

IsDir(p) == PathStr(p) \in dirs

InvInit ==
    [ pc |-> "idle", github_token |-> None, repo_input |-> <<>>, clone |-> FALSE,
      raw_input |-> None, is_url |-> FALSE, owner |-> None, repo |-> None,
      effective_input |-> None, output_file |-> None,
      result |-> None, raised |-> FALSE,
      cmd |-> None,              \* the gitingest invocation: [input, token, env_token]
      tool_exit |-> "none",      \* how gitingest ended: zero, nonzero, raised
      tool_stderr |-> <<>>,      \* its standard error
      clone_exit |-> "none",     \* how clone_repo ended: returned, git_failed, raised
      events |-> <<>>,           \* side effects of this invocation, in order
      index_at_call |-> AbsentDir, \* indexes/{repo}/ when ingest_repo was entered
      index_at_tool |-> FALSE,   \* indexes/{repo}/ existed when gitingest started
      old_clone |-> FALSE,       \* my_repos/{owner}/{repo} existed on entry of clone_repo
      dst_at_git |-> FALSE,      \* ... and when git clone started
      git_created |-> FALSE,     \* the running git clone created the destination
      removed_of |-> 0 ]         \* invocation whose clone this one's rmtree removed

NoCall == [owner |-> <<>>, repo |-> <<>>, dot_git |-> FALSE]

NotCalled == [called |-> FALSE]

IndexStates == {AbsentDir} \cup {[exists |-> TRUE, files |-> f] : f \in SUBSET Artifacts}

FullIndex == [exists |-> TRUE, files |-> Artifacts]

OldClone == [exists |-> TRUE, creator |-> 0, marker |-> None]

Init ==
    /\ dirs \in {LocalRepos, LocalRepos \cup {UrlLikeDir}}
    /\ output_dir = FALSE
    /\ indexes \in {ix \in [RepoNames -> IndexStates] : ix[<<"q">>] = FullIndex}
    /\ my_repos \in {mr \in [Owners \X RepoNames -> {NoRepoDir, OldClone}] :
                        \A k \in Owners \X RepoNames : k # <<(<<"a">>), (<<"r">>)>> => mr[k] = NoRepoDir}
    /\ inv = [i \in Procs |-> InvInit]
    /\ p_in = NoCall
    /\ p_out = NotCalled

Set(i, r) == inv' = [inv EXCEPT ![i] = r]

\* ------------------------------------------------------------------------
\* repo_index_exists, delete_repo_index
\* ------------------------------------------------------------------------
repo_index_exists_any(d) == d.exists /\ \E f \in Artifacts : f \in d.files

repo_index_exists(d) == d.exists /\ \A f \in Artifacts : f \in d.files

delete_repo_index_keep(d) == d

delete_repo_index(d) == IF d.exists THEN AbsentDir ELSE d

\* ------------------------------------------------------------------------
\* ingest_repo, lines 170-181: entry, sanitising, classification
\* ------------------------------------------------------------------------
IsBlank_unstripped(repo_input) == repo_input = <<>>

IsBlank(repo_input) == repo_input = <<>> \/ Strip(repo_input) = <<>>

\* lines 175-190, 202: what ingest_repo derives from its argument alone
Derive(repo_input) ==
    LET blank == IsBlank(repo_input)
        raw_input == Strip(repo_input)
        is_url == ~blank /\ is_probable_git_url(raw_input)
        local_path == normalize_local_path(raw_input)
    IN  [ blank |-> blank,
          raw_input |-> IF blank THEN None ELSE raw_input,
          is_url |-> is_url,
          local_path |-> IF blank \/ is_url THEN None ELSE local_path,
          repo_path |-> IF blank \/ is_url THEN None ELSE Resolve(local_path),
          m |-> IF is_url THEN parse_github_url(raw_input)
                ELSE [ok |-> FALSE, owner |-> None, repo |-> None] ]

\* Derive, tabulated over the inputs of the model
Derived == [repo_input \in Inputs |-> Derive(repo_input)]

\* lines 170-177: a fresh invocation, its arguments sanitised
Entered(repo_input, clone, token) ==
    [InvInit EXCEPT !.github_token = token, !.repo_input = repo_input, !.clone = clone,
                    !.raw_input = Derived[repo_input].raw_input,
                    !.is_url = Derived[repo_input].is_url]

\* lines 172-176: nothing to ingest
IngestBlank(i, repo_input, clone, token) ==
    /\ inv[i].pc \in {"idle", "done"}
    /\ Derived[repo_input].blank
    /\ output_dir' = TRUE
    /\ Set(i, [Entered(repo_input, clone, token) EXCEPT !.pc = "done",
                 !.result = [success |-> FALSE,
                             error |-> <<"No repository URL or local path provided.">>]])
    /\ UNCHANGED <<dirs, indexes, my_repos, parsevars>>

\* lines 172-199: local path
IngestLocal(i, repo_input, clone, token) ==
    /\ inv[i].pc \in {"idle", "done"}
    /\ ~Derived[repo_input].blank
    /\ ~Derived[repo_input].is_url
    /\ output_dir' = TRUE
    /\ LET local_path == Derived[repo_input].local_path
           repo_path == Derived[repo_input].repo_path
           repo == PathName(repo_path)
       IN  IF ~IsDir(local_path)
           THEN /\ Set(i, [Entered(repo_input, clone, token) EXCEPT !.pc = "done",
                             !.result = [success |-> FALSE,
                                         error |-> <<"Local path not found or not a directory: ">>
                                                     \o local_path]])
                /\ UNCHANGED my_repos
           ELSE /\ my_repos' = [my_repos EXCEPT ![<<S_Local, repo>>] =
                                   [@ EXCEPT !.exists = TRUE, !.marker = repo_path]]
                /\ Set(i, [Entered(repo_input, clone, token) EXCEPT !.pc = "check_index",
                             !.owner = S_Local, !.repo = repo,
                             !.effective_input = repo_path,
                             !.index_at_call = indexes[repo],
                             !.events = Append(@, "write_marker")])
    /\ UNCHANGED <<dirs, indexes, parsevars>>

\* lines 172-181, 200-203: remote reference; the ValueError of
\* parse_github_url is not caught inside ingest_repo
IngestRemote(i, repo_input, clone, token) ==
    /\ inv[i].pc \in {"idle", "done"}
    /\ Derived[repo_input].is_url
    /\ output_dir' = TRUE
    /\ LET m == Derived[repo_input].m
       IN  IF ~m.ok
           THEN Set(i, [Entered(repo_input, clone, token) EXCEPT !.pc = "done", !.raised = TRUE])
           ELSE Set(i, [Entered(repo_input, clone, token) EXCEPT !.pc = "check_index",
                           !.owner = m.owner, !.repo = m.repo,
                           !.effective_input = Derived[repo_input].raw_input,
                           !.index_at_call = indexes[m.repo]])
    /\ UNCHANGED <<dirs, indexes, my_repos, parsevars>>

\* line 206
CheckIndex(i) ==
    /\ inv[i].pc = "check_index"
    /\ Set(i, [inv[i] EXCEPT !.pc = IF repo_index_exists(indexes[inv[i].repo])
                                     THEN "delete_index" ELSE "run_gitingest"])
    /\ UNCHANGED <<fsvars, parsevars>>

\* line 207
DeleteIndex(i) ==
    /\ inv[i].pc = "delete_index"
    /\ indexes' = [indexes EXCEPT ![inv[i].repo] = delete_repo_index(@)]
    /\ Set(i, [inv[i] EXCEPT !.pc = "run_gitingest",
                 !.events = IF indexes[inv[i].repo].exists THEN Append(@, "delete_index") ELSE @])
    /\ UNCHANGED <<dirs, output_dir, my_repos, parsevars>>

\* ------------------------------------------------------------------------
\* run_gitingest
\* ------------------------------------------------------------------------

\* lines 94 and 98: the credential goes to the tool when it is set and the
\* tool's input is not an existing directory
PassToken_always(github_token, input_is_dir) == github_token # None

PassToken(github_token, input_is_dir) == github_token # None /\ ~input_is_dir

\* line 210
OutputFile(owner, repo) ==
    <<"gitingest_outputs", "/">> \o owner \o <<"_">> \o repo \o <<"_", "%Y%m%d_%H%M%S", ".txt">>

GitingestFailure_raw(stderr, repo_input) ==
    [success |-> FALSE, error |-> stderr, repo_input |-> repo_input]

\* line 113
GitingestFailure(stderr, repo_input) ==
    [success |-> FALSE, error |-> Strip(stderr), repo_input |-> repo_input]

\* line 121
GitingestException(msg, repo_input) ==
    [success |-> FALSE, error |-> msg, repo_input |-> repo_input]

\* line 118
GitingestSuccess(repo_input) ==
    [success |-> TRUE, structured_text |-> <<"File Successfully Ingested!">>,
     repo_input |-> repo_input]

\* lines 209-213 and 93-110: the tool is started
GitingestStart(i) ==
    /\ inv[i].pc = "run_gitingest"
    /\ LET pass == PassToken(inv[i].github_token, IsDir(inv[i].effective_input))
       IN  Set(i, [inv[i] EXCEPT !.pc = "gitingest_running",
                     !.output_file = OutputFile(inv[i].owner, inv[i].repo),
                     !.cmd = [input |-> inv[i].effective_input,
                              token |-> IF pass THEN inv[i].github_token ELSE None,
                              env_token |-> IF pass THEN inv[i].github_token ELSE None],
                     !.index_at_tool = indexes[inv[i].repo].exists,
                     !.events = Append(@, "gitingest")])
    /\ UNCHANGED <<fsvars, parsevars>>

\* lines 112-113, 214-215: non-zero exit status
GitingestFails(i, stderr) ==
    /\ inv[i].pc = "gitingest_running"
    /\ Set(i, [inv[i] EXCEPT !.pc = "done",
                 !.tool_exit = "nonzero", !.tool_stderr = stderr,
                 !.result = GitingestFailure(stderr, inv[i].effective_input)])
    /\ UNCHANGED <<fsvars, parsevars>>

\* lines 120-121, 214-215: timeout, missing tool, unreadable output
GitingestRaises(i, msg) ==
    /\ inv[i].pc = "gitingest_running"
    /\ Set(i, [inv[i] EXCEPT !.pc = "done",
                 !.tool_exit = "raised",
                 !.result = GitingestException(msg, inv[i].effective_input)])
    /\ UNCHANGED <<fsvars, parsevars>>

\* line 221
WantsClone(clone, is_url, input_is_dir) == clone /\ is_url /\ ~input_is_dir

\* lines 115-118, 217-221, 229: exit status 0
GitingestSucceeds(i) ==
    /\ inv[i].pc = "gitingest_running"
    /\ Set(i, [inv[i] EXCEPT
                 !.pc = IF WantsClone(inv[i].clone, inv[i].is_url, IsDir(inv[i].effective_input))
                        THEN "clone_repo" ELSE "done",
                 !.tool_exit = "zero",
                 !.result = ("output_file" :> inv[i].output_file)
                            @@ GitingestSuccess(inv[i].effective_input)])
    /\ UNCHANGED <<fsvars, parsevars>>

\* ------------------------------------------------------------------------
\* clone_repo
\* ------------------------------------------------------------------------
\* line 54: clone_repo parses the reference ingest_repo has parsed
CloneKey(i) ==
    LET m == Derived[inv[i].repo_input].m IN <<m.owner, m.repo>>

\* lines 224 and 227
CloneSuccessResult(result, local_path) == ("local_repo" :> local_path) @@ result

CloneFailureResult_fatal(result) ==
    [success |-> FALSE, error |-> <<"Git clone failed">>, repo_input |-> result.repo_input]

CloneFailureResult(result) == ("local_repo" :> None) @@ result

RemoveOldClone_keep(d) == d

\* lines 57-59: fresh = True
RemoveOldClone(d) == IF d.exists THEN NoRepoDir ELSE d

\* whose running clone created directory d
ClonerOf(i, d) ==
    IF d.exists /\ d.creator \in Procs \ {i} /\ inv[d.creator].pc = "cloning"
          /\ inv[d.creator].git_created
    THEN d.creator ELSE 0

\* the same step behind a lock held while another invocation clones
CloneFresh_locked(i) ==
    /\ inv[i].pc = "clone_repo"
    /\ \A j \in Procs \ {i} : inv[j].pc \notin {"git_clone", "cloning"}
    /\ my_repos' = [my_repos EXCEPT ![CloneKey(i)] = RemoveOldClone(@)]
    /\ Set(i, [inv[i] EXCEPT !.pc = "git_clone",
                 !.old_clone = my_repos[CloneKey(i)].exists,
                 !.removed_of = ClonerOf(i, my_repos[CloneKey(i)]),
                 !.events = IF my_repos[CloneKey(i)].exists THEN Append(@, "rmtree") ELSE @])
    /\ UNCHANGED <<dirs, output_dir, indexes, parsevars>>

\* lines 54-61: the old copy is removed
CloneFresh(i) ==
    /\ inv[i].pc = "clone_repo"
    /\ my_repos' = [my_repos EXCEPT ![CloneKey(i)] = RemoveOldClone(@)]
    /\ Set(i, [inv[i] EXCEPT !.pc = "git_clone",
                 !.old_clone = my_repos[CloneKey(i)].exists,
                 !.removed_of = ClonerOf(i, my_repos[CloneKey(i)]),
                 !.events = IF my_repos[CloneKey(i)].exists THEN Append(@, "rmtree") ELSE @])
    /\ UNCHANGED <<dirs, output_dir, indexes, parsevars>>

\* lines 59, 225-227: shutil.rmtree raises (handle_remove_readonly re-raises)
CloneFreshRaises(i) ==
    /\ inv[i].pc = "clone_repo"
    /\ my_repos[CloneKey(i)].exists
    /\ Set(i, [inv[i] EXCEPT !.pc = "done",
                 !.old_clone = TRUE,
                 !.clone_exit = "raised",
                 !.result = CloneFailureResult(@)])
    /\ UNCHANGED <<fsvars, parsevars>>

\* lines 69-73: git clone --depth 1 is started; git creates the destination
\* unless a directory is already there
GitCloneStart(i) ==
    /\ inv[i].pc = "git_clone"
    /\ LET d == my_repos[CloneKey(i)]
       IN  /\ my_repos' = [my_repos EXCEPT ![CloneKey(i)] =
                              IF d.exists THEN d
                              ELSE [exists |-> TRUE, creator |-> i, marker |-> None]]
           /\ Set(i, [inv[i] EXCEPT !.pc = "cloning",
                        !.dst_at_git = d.exists,
                        !.git_created = ~d.exists,
                        !.events = Append(@, "git_clone")])
    /\ UNCHANGED <<dirs, output_dir, indexes, parsevars>>

\* lines 75-79, 224, 229: exit status 0, possible when git created the
\* destination and it is still there
GitCloneSucceeds(i) ==
    /\ inv[i].pc = "cloning"
    /\ inv[i].git_created
    /\ my_repos[CloneKey(i)].exists
    /\ my_repos' = [my_repos EXCEPT ![CloneKey(i)] = OldClone]
    /\ Set(i, [inv[i] EXCEPT !.pc = "done",
                 !.clone_exit = "returned",
                 !.result = CloneSuccessResult(@, RepoPath(CloneKey(i)[1], CloneKey(i)[2]))])
    /\ UNCHANGED <<dirs, output_dir, indexes, parsevars>>

\* lines 75-76, 225-227: non-zero exit status; git removes what it created
GitCloneFails(i) ==
    /\ inv[i].pc = "cloning"
    /\ LET d == my_repos[CloneKey(i)]
       IN  my_repos' = [my_repos EXCEPT ![CloneKey(i)] =
                           IF inv[i].git_created /\ d.exists /\ d.creator = i
                           THEN NoRepoDir ELSE d]
    /\ Set(i, [inv[i] EXCEPT !.pc = "done", !.clone_exit = "git_failed",
                 !.result = CloneFailureResult(@)])
    /\ UNCHANGED <<dirs, output_dir, indexes, parsevars>>

\* ------------------------------------------------------------------------
\* Specifications
\* ------------------------------------------------------------------------
Run(i) ==
    \/ CheckIndex(i)
    \/ DeleteIndex(i)
    \/ GitingestStart(i)
    \/ \E stderr \in Stderrs : GitingestFails(i, stderr)
    \/ \E msg \in ToolExceptions : GitingestRaises(i, msg)
    \/ GitingestSucceeds(i)
    \/ CloneFresh(i)
    \/ CloneFreshRaises(i)
    \/ GitCloneStart(i)
    \/ GitCloneSucceeds(i)
    \/ GitCloneFails(i)

\* one request at a time
Next ==
    \/ \E repo_input \in Inputs, clone \in BOOLEAN, token \in Tokens :
          \/ IngestBlank(1, repo_input, clone, token)
          \/ IngestLocal(1, repo_input, clone, token)
          \/ IngestRemote(1, repo_input, clone, token)
    \/ Run(1)

Spec == Init /\ [][Next]_vars

\* ------------------------------------------------------------------------
\* Concurrent requests for one repository name (the Flask route, lines
\* 278-288, builds a RepoIngestor per request and takes no lock)
\* ------------------------------------------------------------------------
InitConc ==
    /\ dirs = LocalRepos
    /\ output_dir = FALSE
    /\ indexes \in {ix \in [RepoNames -> {AbsentDir, FullIndex}] : ix[<<"q">>] = AbsentDir}
    /\ my_repos = [k \in Owners \X RepoNames |-> NoRepoDir]
    /\ inv = [i \in Procs |-> InvInit]
    /\ p_in = NoCall
    /\ p_out = NotCalled

NextConc ==
    \E i \in Procs :
        \/ \E repo_input \in SameRepoInputs : IngestRemote(i, repo_input, TRUE, None)
        \/ Run(i)

SpecConc == InitConc /\ [][NextConc]_vars

\* ------------------------------------------------------------------------
\* Direct calls of parse_github_url on https://github.com/<owner>/<repo>[.git]
\* ------------------------------------------------------------------------
OwnerChars == {"a", ":"}

RepoChars == {".", "g", "i", "t", "\n"}

StringsOver(chars, n) == UNION {[1..k -> chars] : k \in 1..n}

ParseUrl(in) ==
    GithubUrl(in.owner, in.repo) \o (IF in.dot_git THEN S_dot_git ELSE <<>>)

InitParse ==
    /\ dirs = LocalRepos
    /\ output_dir = FALSE
    /\ indexes = [n \in RepoNames |-> AbsentDir]
    /\ my_repos = [k \in Owners \X RepoNames |-> NoRepoDir]
    /\ inv = [i \in Procs |-> InvInit]
    /\ p_in \in [owner : StringsOver(OwnerChars, MaxOwnerLen),
                 repo : StringsOver(RepoChars, MaxRepoLen),
                 dot_git : BOOLEAN]
    /\ p_out = NotCalled

ParseCall ==
    /\ ~p_out.called
    /\ p_out' = [called |-> TRUE] @@ parse_github_url(ParseUrl(p_in))
    /\ UNCHANGED <<fsvars, inv, p_in>>

NextParse == ParseCall

SpecParse == InitParse /\ [][NextParse]_vars

\* ------------------------------------------------------------------------
\* Properties
\* ------------------------------------------------------------------------
Done(i) == inv[i].pc = "done"

\* position of event e in the trace of invocation i, 0 when it did not happen
Pos(i, e) ==
    LET at == {k \in 1..Len(inv[i].events) : inv[i].events[k] = e}
    IN  IF at = {} THEN 0 ELSE CHOOSE k \in at : \A l \in at : k <= l

Happened(i, e) == Pos(i, e) > 0

HadFullIndex(i) == inv[i].index_at_call.exists /\ inv[i].index_at_call.files = Artifacts

PastIndexCheck(i) ==
    inv[i].repo # None /\ inv[i].pc \notin {"idle", "check_index", "delete_index"}

\* C1: every call of ingest_repo returns a result record with a success
\* flag; no exception propagates out of ingest_repo.
C1_AlwaysReturnsRecord ==
    \A i \in Procs : Done(i) => ~inv[i].raised /\ "success" \in DOMAIN inv[i].result

\* C2: when indexes/{repo}/ holds all three artifacts as ingest_repo is
\* called, the directory is deleted before gitingest is invoked: it is gone
\* once the index check is passed, the deletion precedes the start of the
\* tool, and the directory does not exist when the tool starts.
C2_StaleIndexDeletedBeforeTool ==
    \A i \in Procs :
        (HadFullIndex(i) /\ PastIndexCheck(i)) =>
            /\ Happened(i, "delete_index")
            /\ ~indexes[inv[i].repo].exists
            /\ Happened(i, "gitingest") =>
                  /\ Pos(i, "delete_index") < Pos(i, "gitingest")
                  /\ ~inv[i].index_at_tool

C2_Witness ==
    \E i \in Procs : HadFullIndex(i) /\ Happened(i, "gitingest") /\ inv[i].pc = "gitingest_running"

\* C3: for a remote input, when gitingest exits with a non-zero status,
\* ingest_repo returns success = false with error = the stripped standard
\* error, without output_file and local_repo, and no clone step runs
\* (neither the removal of an old clone nor git clone).
C3_ToolFailureIsReturned ==
    \A i \in Procs :
        (inv[i].is_url /\ inv[i].tool_exit = "nonzero") =>
            /\ Done(i) /\ ~inv[i].raised
            /\ inv[i].result.success = FALSE
            /\ inv[i].result.error = Strip(inv[i].tool_stderr)
            /\ "output_file" \notin DOMAIN inv[i].result
            /\ "local_repo" \notin DOMAIN inv[i].result
            /\ ~Happened(i, "rmtree") /\ ~Happened(i, "git_clone")
            /\ inv[i].clone_exit = "none"

C3_Witness ==
    \E i \in Procs :
        /\ inv[i].is_url /\ inv[i].clone /\ inv[i].tool_exit = "nonzero"
        /\ Strip(inv[i].tool_stderr) # inv[i].tool_stderr
        /\ my_repos[<<inv[i].owner, inv[i].repo>>].exists

\* C4: for a remote input with cloning requested, when gitingest succeeds
\* and the clone step fails (git clone exits non-zero or clone_repo raises),
\* ingest_repo returns success = true with output_file set and local_repo
\* present with value None.
C4_CloneFailureIsNotFatal ==
    \A i \in Procs :
        (inv[i].is_url /\ inv[i].clone /\ inv[i].tool_exit = "zero"
            /\ inv[i].clone_exit \in {"git_failed", "raised"}) =>
            /\ Done(i) /\ ~inv[i].raised
            /\ inv[i].result.success = TRUE
            /\ "output_file" \in DOMAIN inv[i].result
            /\ inv[i].result.output_file = OutputFile(inv[i].owner, inv[i].repo)
            /\ "local_repo" \in DOMAIN inv[i].result
            /\ inv[i].result.local_repo = None

C4_Witness ==
    \E i \in Procs : inv[i].is_url /\ inv[i].clone /\ inv[i].tool_exit = "zero"
                     /\ inv[i].clone_exit = "git_failed"

TokenPassed(i) == inv[i].cmd.token = inv[i].github_token /\ inv[i].cmd.env_token = inv[i].github_token

TokenWithheld(i) == inv[i].cmd.token = None /\ inv[i].cmd.env_token = None

\* C5 as stated: for every call with a token set, the token is passed to
\* gitingest (flag and environment) if and only if the input was classified
\* as remote.
C5_TokenIffRemote ==
    \A i \in Procs :
        (inv[i].github_token # None /\ Happened(i, "gitingest")) =>
            /\ inv[i].is_url => TokenPassed(i)
            /\ ~inv[i].is_url => TokenWithheld(i)

\* C5 amended: with a token set, the token is never passed for a local path,
\* and for an input classified as remote it is passed (flag and environment)
\* if and only if the input does not name an existing directory.
C5_TokenIffRemoteNotDir ==
    \A i \in Procs :
        (inv[i].github_token # None /\ Happened(i, "gitingest")) =>
            /\ (inv[i].is_url /\ inv[i].effective_input \notin dirs) => TokenPassed(i)
            /\ (inv[i].is_url /\ inv[i].effective_input \in dirs) => TokenWithheld(i)
            /\ ~inv[i].is_url => TokenWithheld(i)

C5_Witness ==
    \E i \in Procs :
        /\ inv[i].github_token # None /\ Happened(i, "gitingest")
        /\ inv[i].is_url /\ inv[i].effective_input \in dirs
        /\ TokenWithheld(i)

AllWhitespace(s) == \A k \in 1..Len(s) : s[k] \in Whitespace

MissingLocal(i) ==
    /\ ~AllWhitespace(inv[i].repo_input)
    /\ ~inv[i].is_url
    /\ normalize_local_path(inv[i].repo_input) \notin dirs

\* C7: for an empty or whitespace-only input, and for a local path that is
\* not an existing directory, ingest_repo returns success = false with the
\* "no repository" resp. "not found" message and performs none of the later
\* steps: no marker file, no index deletion, no gitingest, no git clone.
C7_RejectedInputHasNoEffect ==
    \A i \in Procs :
        (inv[i].pc # "idle" /\ (AllWhitespace(inv[i].repo_input) \/ MissingLocal(i))) =>
            /\ Done(i) /\ ~inv[i].raised
            /\ inv[i].result.success = FALSE
            /\ inv[i].result.error[1] =
                  IF AllWhitespace(inv[i].repo_input)
                  THEN "No repository URL or local path provided."
                  ELSE "Local path not found or not a directory: "
            /\ inv[i].events = <<>>
            /\ inv[i].cmd = None
            /\ inv[i].clone_exit = "none"

C7_Witness ==
    \E i \in Procs : Done(i) /\ MissingLocal(i) /\ inv[i].clone /\ inv[i].github_token # None

\* the final path segment of the url, one trailing ".git" removed
ExpectedRepo(in) ==
    LET seg == in.repo \o (IF in.dot_git THEN S_dot_git ELSE <<>>)
    IN  IF EndsWith(seg, S_dot_git) /\ Len(seg) > Len(S_dot_git)
        THEN SubSeq(seg, 1, Len(seg) - Len(S_dot_git)) ELSE seg

\* C8 as stated: for https://github.com/<owner>/<repo> with or without
\* ".git", owner and repo non-empty and without '/', parse_github_url
\* returns (owner, repo) with the trailing ".git" removed.
C8_ParsesOwnerAndRepo ==
    p_out.called =>
        p_out.ok /\ p_out.owner = p_in.owner /\ p_out.repo = ExpectedRepo(p_in)

\* C8 amended: the same, for urls that do not end in a line feed.
C8_ParsesOwnerAndRepoNoLineFeed ==
    (p_out.called /\ ParseUrl(p_in)[Len(ParseUrl(p_in))] # "\n") =>
        p_out.ok /\ p_out.owner = p_in.owner /\ p_out.repo = ExpectedRepo(p_in)

C8_Witness ==
    /\ p_out.called /\ p_in.dot_git /\ p_out.ok
    /\ p_out.repo = p_in.repo
    /\ "\n" \in {p_in.repo[k] : k \in 1..Len(p_in.repo)}

\* C9: concurrent invocations for one repository name are not serialized by
\* a lock: the removal of the stale index and the removal of the old clone
\* never wait for the other invocation, wherever that one is.
C9_DeleteStepsNeverWait ==
    \A i \in Procs :
        /\ inv[i].pc = "delete_index" => ENABLED DeleteIndex(i)
        /\ inv[i].pc = "clone_repo" => ENABLED CloneFresh(i)

\* one invocation has removed the directory the other's running git clone
\* created
C9_Witness ==
    \E i \in Procs : \E j \in Procs \ {i} :
        /\ inv[i].removed_of = j
        /\ inv[j].pc = "cloning" /\ inv[j].git_created
        /\ CloneKey(i) = CloneKey(j)
        /\ ~my_repos[CloneKey(j)].exists

\* C10: index invalidation is keyed by the repository name alone: whatever
\* the owner (remote owner or "Local"), an invocation that derives the name
\* deletes indexes/{repo}/ when it held all three artifacts, and leaves it
\* unchanged otherwise (in particular with one or two artifacts).
C10_InvalidationByNameOnly ==
    \A i \in Procs :
        PastIndexCheck(i) =>
            IF HadFullIndex(i)
            THEN Happened(i, "delete_index") /\ ~indexes[inv[i].repo].exists
            ELSE ~Happened(i, "delete_index") /\ indexes[inv[i].repo] = inv[i].index_at_call

C10_Witness ==
    \E i \in Procs :
        /\ PastIndexCheck(i) /\ inv[i].owner = S_Local
        /\ inv[i].index_at_call.exists
        /\ Cardinality(inv[i].index_at_call.files) = Cardinality(Artifacts) - 1
        /\ indexes[inv[i].repo] = inv[i].index_at_call

====
